---- MODULE Spec2Model ----
(***************************************************************************)
(* Model of the VideoCall React component (src/src/components/VideoCall.js)*)
(*                                                                         *)
(* The component is modelled as the state machine React runs: the props    *)
(* (stream, isRemote), the useState cells (isLoading, isSpeaking,          *)
(* localStream, error), whether the component is mounted, and the things   *)
(* the component leaves in the platform: capture streams and whether their *)
(* tracks were stopped, promises in flight (getUserMedia, video.play()),   *)
(* document listeners, and the self-rescheduling detectVolume loops with   *)
(* their silence timers.                                                   *)
(*                                                                         *)
(* One action is one task of the event loop: a props change with the       *)
(* effects React runs after the commit, a promise continuation up to its   *)
(* next await (with the re-render and effects its setState calls cause),   *)
(* an animation-frame callback, a timer callback, a DOM event, the unmount.*)
(***************************************************************************)
EXTENDS Integers, Sequences, FiniteSets, Bags, TLC

\* ------------------------------------------------------------------ bounds
\* Capture requests that may succeed (each success creates a new MediaStream).
MaxAcquire == 2
\* Promises (getUserMedia, play) in flight at once.
MaxPending == 2
\* AudioContexts the platform lets the page construct.
MaxLoops == 2
\* enableAudio closures the document may hold.
MaxListeners == 2
\* Frequency bins of the modelled analyser (the code's buffer has fftSize / 2).
NumBins == 2
\* Granularity of the clock, in ms.
TimeStepMs == 400

\* ------------------------------------------------------- program constants
\* `average > 20`
Threshold == 20
\* `setTimeout(..., 800)`
SilenceMs == 800

\* ----------------------------------------------------------------- streams
NoStream == [own |-> "none", id |-> 0]
Ext(i) == [own |-> "external", id |-> i]
Self(i) == [own |-> "self", id |-> i]

\* Streams the parent component may pass as the `stream` prop.
ExtStreams == {Ext(1), Ext(2)}

\* currentStream.getAudioTracks().length : the second external stream is
\* video only; getUserMedia is asked for audio, so a captured stream has one.
AudioTrackCount(s) == IF s = Ext(2) \/ s = NoStream THEN 0 ELSE 1

NoError == "none"
\* error.message of a rejected getUserMedia
ErrorMessages == {"permission denied"}

NoTimer == -1

\* Byte magnitudes getByteFrequencyData may write into a bin.
Magnitudes == {0, Threshold, Threshold + 1, 255}
Readings == [1..NumBins -> Magnitudes]

VARIABLES
  stream,       \* prop: the externally supplied stream, or NoStream
  isRemote,     \* prop
  isLoading,    \* useState(true)
  isSpeaking,   \* useState(false)
  localStream,  \* useState(null)
  error,        \* useState(null)
  mounted,      \* FALSE once the component was unmounted
  nextId,       \* number of streams getUserMedia has created
  stopped,      \* streams on whose tracks track.stop() was called
  gumPending,   \* getLocalCamera calls awaiting getUserMedia
  localPlays,   \* getLocalCamera calls awaiting videoRef.current.play()
  extPlays,     \* playVideo calls awaiting play(), by the isRemote they captured
  listeners,    \* enableAudio closures registered on document
  unlockPlays,  \* play() calls made by enableAudio that have not settled
  loops         \* the running detectVolume loops, as the bag of their
                \* silenceTimeout states: NoTimer (never armed, or its callback
                \* has run), or the ms left until the callback is due

vars == <<stream, isRemote, isLoading, isSpeaking, localStream, error, mounted,
          nextId, stopped, gumPending, localPlays, extPlays, listeners,
          unlockPlays, loops>>

\* --------------------------------------------------------- pure functions
RECURSIVE SumBins(_, _)
\* `for (i...) values += dataArray[i]`
SumBins(d, n) == IF n = 0 THEN 0 ELSE d[n] + SumBins(d, n - 1)

\* A comparison that also counts a mean equal to the threshold as loud.
IsLoudAtThreshold(d) == SumBins(d, NumBins) >= Threshold * NumBins

\* `average = values / dataArray.length; average > 20`.  The division is a
\* floating point one, so the test is values > 20 * length.
IsLoud(d) == SumBins(d, NumBins) > Threshold * NumBins

\* The buffer of an analyser that has not processed audio.
SilentReading == [i \in 1..NumBins |-> 0]

\* The results of the test over every reading the analyser may deliver.
LoudOutcomes == {IsLoud(d) : d \in Readings}

\* The silenceTimeout of a loop after a detectVolume pass on a reading.
Armed(loud, timer) == IF loud THEN SilenceMs ELSE timer

\* `stream || localStream`
CurrentStream(ext, ls) == IF ext # NoStream THEN ext ELSE ls

\* Whether the render output holds the <video> element, i.e. whether
\* videoRef.current is non-null after the commit.
VideoMounted(ext, ls) ==
  mounted /\ ~isLoading /\ error = NoError /\ CurrentStream(ext, ls) # NoStream

\* What the presentation layer shows.
PresentationState ==
  IF isLoading THEN "Loading"
  ELSE IF error # NoError THEN "Error"
  ELSE IF CurrentStream(stream, localStream) # NoStream THEN "Playing"
  ELSE "Idle"

InFlight == gumPending + localPlays + extPlays[TRUE] + extPlays[FALSE]

\* Streams created by getUserMedia whose tracks are still live.
LiveSelfStreams == {Self(i) : i \in 1..nextId} \ stopped

\* --------------------------------------------------- setupAudioAnalyser
\* setupAudioAnalyser(s) against the loops lp already running: the outcomes
\* [loops, loud].  Either the try block throws before detectVolume() (the
\* AudioContext cannot be constructed, or createMediaStreamSource rejects a
\* stream without audio track) and the catch only logs, or a new loop is
\* added and its first detectVolume() pass has run, synchronously, on an
\* analyser that has processed no audio yet: every bin reads 0.
\* Nothing ever removes a loop: detectVolume re-schedules itself
\* unconditionally and no cancelAnimationFrame exists in the component.
SetupAudioAnalyser(lp, s) ==
  {[loops |-> lp, loud |-> FALSE]}
  \cup (IF AudioTrackCount(s) > 0 /\ BagCardinality(lp) < MaxLoops
        THEN {[loops |-> lp (+) SetToBag({Armed(IsLoud(SilentReading), NoTimer)}),
               loud |-> IsLoud(SilentReading)]}
        ELSE {})

\* ------------------------------------------------------------- effects
\* The first steps of getLocalCamera, up to `await getUserMedia(...)`.
GetLocalCameraStart(st) ==
  [st EXCEPT !.isLoading = TRUE, !.error = NoError, !.gumPending = @ + 1]

\* An effect that also clears the error message when a stream is supplied.
ExternalStreamEffectClearsError(s, r, vm, st) ==
  IF s # NoStream /\ vm
    THEN [st EXCEPT !.extPlays[r] = @ + 1, !.error = NoError]
  ELSE IF s = NoStream /\ ~r
    THEN GetLocalCameraStart(st)
  ELSE IF s = NoStream
    THEN [st EXCEPT !.isLoading = FALSE]
  ELSE [st EXCEPT !.error = NoError]

\* useEffect(..., [stream, isRemote]) on the props s, r; vm says whether
\* videoRef.current is set.  st holds the cells the effect writes.
ExternalStreamEffect(s, r, vm, st) ==
  IF s # NoStream /\ vm
    THEN [st EXCEPT !.extPlays[r] = @ + 1]
  ELSE IF s = NoStream /\ ~r
    THEN GetLocalCameraStart(st)
  ELSE IF s = NoStream
    THEN [st EXCEPT !.isLoading = FALSE]
  ELSE st

\* useEffect(..., [stream, localStream, isRemote]): audio level detection.
AudioLevelEffect(s, ls, r, lp) ==
  IF ~r /\ CurrentStream(s, ls) # NoStream
        /\ AudioTrackCount(CurrentStream(s, ls)) > 0
    THEN SetupAudioAnalyser(lp, CurrentStream(s, ls))
    ELSE {[loops |-> lp, loud |-> FALSE]}

\* A cleanup that stops the tracks of whatever stream is shown.
CleanupStopsCurrent(ext, ls) ==
  IF CurrentStream(ext, ls) # NoStream THEN {CurrentStream(ext, ls)} ELSE {}

\* The cleanup of useEffect(..., [localStream]): the streams whose tracks it
\* stops, for the props and localStream its closure captured.
CleanupStops(ext, ls) == IF ls # NoStream THEN {ls} ELSE {}

Cells == [isLoading |-> isLoading, error |-> error,
          gumPending |-> gumPending, extPlays |-> extPlays]

\* setIsSpeaking(true) by a loud reading; a no-op once unmounted.
Spoke(loud) == mounted /\ loud

\* ---------------------------------------------------------------- Init
\* The state after the first commit and its effects.  The first render has
\* isLoading = true, so it holds no <video> and videoRef.current is null.
Init ==
  \E s \in ExtStreams \cup {NoStream}, r \in BOOLEAN :
    LET st0 == [isLoading |-> TRUE, error |-> NoError, gumPending |-> 0,
                extPlays |-> [b \in BOOLEAN |-> 0]]
        e == ExternalStreamEffect(s, r, FALSE, st0)
    IN \E o \in AudioLevelEffect(s, NoStream, r, EmptyBag) :
         /\ stream = s
         /\ isRemote = r
         /\ isLoading = e.isLoading
         /\ error = e.error
         /\ gumPending = e.gumPending
         /\ extPlays = e.extPlays
         /\ isSpeaking = o.loud
         /\ loops = o.loops
         /\ localStream = NoStream
         /\ mounted = TRUE
         /\ nextId = 0
         /\ stopped = {}
         /\ localPlays = 0
         /\ listeners = 0
         /\ unlockPlays = 0

\* ------------------------------------------------------------- actions
\* The parent re-renders the component with other props: attach(s) or a role
\* change.  React commits and runs the two effects that depend on them.
PropsChange(s, r) ==
  /\ mounted
  /\ InFlight < MaxPending
  /\ stream' = s
  /\ isRemote' = r
  /\ LET e == ExternalStreamEffect(s, r, VideoMounted(s, localStream), Cells)
     IN /\ isLoading' = e.isLoading
        /\ error' = e.error
        /\ gumPending' = e.gumPending
        /\ extPlays' = e.extPlays
  /\ \E o \in AudioLevelEffect(s, localStream, r, loops) :
       /\ loops' = o.loops
       /\ isSpeaking' = (isSpeaking \/ o.loud)
  /\ UNCHANGED <<localStream, mounted, nextId, stopped, localPlays, listeners, unlockPlays>>

Attach(s) == s # stream /\ PropsChange(s, isRemote)

SetRole == PropsChange(stream, ~isRemote)

\* The "Retry Camera Access" button of the error panel: onClick={getLocalCamera}.
Retry ==
  /\ mounted
  /\ PresentationState = "Error"
  /\ InFlight < MaxPending
  /\ LET e == GetLocalCameraStart(Cells)
     IN /\ isLoading' = e.isLoading
        /\ error' = e.error
        /\ gumPending' = e.gumPending
  /\ UNCHANGED <<stream, isRemote, isSpeaking, localStream, mounted, nextId,
                 stopped, localPlays, extPlays, listeners, loops, unlockPlays>>

\* getUserMedia resolves with a new stream L and getLocalCamera continues.
\* Mounted: setLocalStream(L); if videoRef.current is set, srcObject = L and
\* the function suspends on play(), otherwise it runs to its end.  Whether
\* the <video> of the render with the new localStream is already committed
\* when videoRef.current is read depends on how React flushes a setState made
\* in a promise continuation (batched, or synchronously): both are allowed.
\* The re-render runs the [localStream] cleanup for the previous stream and
\* the audio level effect.  Unmounted: the setState calls do nothing, no
\* effect runs, and setupAudioAnalyser(L) is still called.
AcquireSucceed ==
  /\ gumPending > 0
  /\ nextId < MaxAcquire
  /\ gumPending' = gumPending - 1
  /\ nextId' = nextId + 1
  /\ LET L == Self(nextId + 1) IN
     IF mounted
     THEN /\ localStream' = L
          /\ stopped' = stopped \cup CleanupStops(stream, localStream)
          /\ \E vm \in {VideoMounted(stream, localStream), VideoMounted(stream, L)} :
               IF vm
               THEN /\ localPlays' = localPlays + 1
                    /\ isLoading' = isLoading
                    /\ \E o \in AudioLevelEffect(stream, L, isRemote, loops) :
                         /\ loops' = o.loops
                         /\ isSpeaking' = (isSpeaking \/ o.loud)
               ELSE /\ localPlays' = localPlays
                    /\ isLoading' = FALSE
                    /\ \E o1 \in SetupAudioAnalyser(loops, L) :
                       \E o2 \in AudioLevelEffect(stream, L, isRemote, o1.loops) :
                         /\ loops' = o2.loops
                         /\ isSpeaking' = (isSpeaking \/ o1.loud \/ o2.loud)
     ELSE /\ \E o \in SetupAudioAnalyser(loops, L) : loops' = o.loops
          /\ UNCHANGED <<localStream, stopped, localPlays, isLoading, isSpeaking>>
  /\ UNCHANGED <<stream, isRemote, error, mounted, extPlays, listeners, unlockPlays>>

\* getUserMedia rejects: the catch of getLocalCamera.
AcquireFail ==
  /\ gumPending > 0
  /\ gumPending' = gumPending - 1
  /\ IF mounted
     THEN \E m \in ErrorMessages : error' = m /\ isLoading' = FALSE
     ELSE UNCHANGED <<error, isLoading>>
  /\ UNCHANGED <<stream, isRemote, isSpeaking, localStream, mounted, nextId,
                 stopped, localPlays, extPlays, listeners, loops, unlockPlays>>

\* play() of getLocalCamera settles (a rejection is only logged):
\* setupAudioAnalyser(L); setIsLoading(false).
LocalPlaySettle ==
  /\ localPlays > 0
  /\ localPlays' = localPlays - 1
  /\ \E o \in SetupAudioAnalyser(loops, Self(nextId)) :
       /\ loops' = o.loops
       /\ isSpeaking' = (isSpeaking \/ Spoke(o.loud))
  /\ isLoading' = (isLoading /\ ~mounted)
  /\ UNCHANGED <<stream, isRemote, localStream, error, mounted, nextId,
                 stopped, gumPending, extPlays, listeners, unlockPlays>>

\* A playVideo whose catch also reports the rejection with setError.
ExtPlaySettleSetsError ==
  \E r \in BOOLEAN, blocked \in BOOLEAN :
    /\ extPlays[r] > 0
    /\ extPlays' = [extPlays EXCEPT ![r] = @ - 1]
    /\ isLoading' = (isLoading /\ ~mounted)
    /\ IF blocked /\ mounted
       THEN \E m \in ErrorMessages : error' = m
       ELSE error' = error
    /\ IF blocked /\ r
       THEN listeners < MaxListeners /\ listeners' = listeners + 1
       ELSE listeners' = listeners
    /\ UNCHANGED <<stream, isRemote, isSpeaking, localStream, mounted,
                   nextId, stopped, gumPending, localPlays, loops, unlockPlays>>

\* play() of playVideo settles, for a call that captured isRemote = r.
\* Either way setIsLoading(false); a rejection with r registers enableAudio
\* for click and touchstart on document.
ExtPlaySettle ==
  \E r \in BOOLEAN, blocked \in BOOLEAN :
    /\ extPlays[r] > 0
    /\ extPlays' = [extPlays EXCEPT ![r] = @ - 1]
    /\ isLoading' = (isLoading /\ ~mounted)
    /\ IF blocked /\ r
       THEN listeners < MaxListeners /\ listeners' = listeners + 1
       ELSE listeners' = listeners
    /\ UNCHANGED <<stream, isRemote, isSpeaking, localStream, error, mounted,
                   nextId, stopped, gumPending, localPlays, loops, unlockPlays>>

\* An enableAudio that retries playback but never removes its listeners.
UserInteractionStaysArmed ==
  LET retries == IF VideoMounted(stream, localStream) THEN listeners ELSE 0 IN
  /\ listeners > 0
  /\ unlockPlays + retries <= MaxListeners
  /\ listeners' = listeners
  /\ unlockPlays' = unlockPlays + retries
  /\ UNCHANGED <<stream, isRemote, isLoading, isSpeaking, localStream, error,
                 mounted, nextId, stopped, gumPending, localPlays, extPlays, loops>>

\* A click or touchstart on the document: every registered enableAudio
\* runs.  With a <video> mounted it sets muted = false and volume = 1.0 and
\* calls play() once (the promise is only given a catch that logs); with or
\* without one it removes itself from both events.
UserInteraction ==
  LET retries == IF VideoMounted(stream, localStream) THEN listeners ELSE 0 IN
  /\ listeners > 0
  /\ unlockPlays + retries <= MaxListeners
  /\ listeners' = 0
  /\ unlockPlays' = unlockPlays + retries
  /\ UNCHANGED <<stream, isRemote, isLoading, isSpeaking, localStream, error,
                 mounted, nextId, stopped, gumPending, localPlays, extPlays,
                 loops>>

\* A play() made by enableAudio settles: `.catch(console.warn)`.
UnlockPlaySettle ==
  /\ unlockPlays > 0
  /\ unlockPlays' = unlockPlays - 1
  /\ UNCHANGED <<stream, isRemote, isLoading, isSpeaking, localStream, error,
                 mounted, nextId, stopped, gumPending, localPlays, extPlays,
                 listeners, loops>>

\* A detectVolume that sets speaking without arming the silence timer.
DetectVolumeNoTimer(t, l) ==
  /\ isSpeaking' = (isSpeaking \/ Spoke(l))
  /\ UNCHANGED <<stream, isRemote, isLoading, localStream, error, mounted,
                 nextId, stopped, gumPending, localPlays, extPlays, listeners,
                 unlockPlays, loops>>

\* detectVolume in the loop whose silenceTimeout is t, on a reading whose
\* test `average > 20` gave l: setIsSpeaking(true) and the timer re-armed
\* when l, nothing otherwise; then requestAnimationFrame(detectVolume).
DetectVolume(t, l) ==
  /\ loops' = (loops (-) SetToBag({t})) (+) SetToBag({Armed(l, t)})
  /\ isSpeaking' = (isSpeaking \/ Spoke(l))
  /\ UNCHANGED <<stream, isRemote, isLoading, localStream, error, mounted,
                 nextId, stopped, gumPending, localPlays, extPlays, listeners,
                 unlockPlays>>

\* One animation frame callback of a running loop.
Tick == \E t \in BagToSet(loops), l \in LoudOutcomes : DetectVolume(t, l)

\* The silence timer of a loop is due and its callback runs:
\* setIsSpeaking(false).
TimerFire ==
  /\ BagIn(0, loops)
  /\ loops' = (loops (-) SetToBag({0})) (+) SetToBag({NoTimer})
  /\ isSpeaking' = (isSpeaking /\ ~mounted)
  /\ UNCHANGED <<stream, isRemote, isLoading, localStream, error, mounted,
                 nextId, stopped, gumPending, localPlays, extPlays, listeners, unlockPlays>>

\* A timer's state after TimeStepMs more.
Elapse(t) == IF t > TimeStepMs THEN t - TimeStepMs ELSE IF t > 0 THEN 0 ELSE t

RECURSIVE CountOf(_, _)
\* How many members of bag B are in the set S of its elements.
CountOf(B, S) ==
  IF S = {} THEN 0
  ELSE LET x == CHOOSE y \in S : TRUE IN B[x] + CountOf(B, S \ {x})

\* TimeStepMs pass.  A timer is never run early; it may run late.
Advance ==
  /\ \E t \in BagToSet(loops) : t > 0
  /\ loops' = [v \in {Elapse(t) : t \in BagToSet(loops)} |->
                 CountOf(loops, {t \in BagToSet(loops) : Elapse(t) = v})]
  /\ UNCHANGED <<stream, isRemote, isLoading, isSpeaking, localStream, error,
                 mounted, nextId, stopped, gumPending, localPlays, extPlays,
                 listeners, unlockPlays>>

\* An unmount whose cleanup stops no track.
DisposeNoCleanup ==
  /\ mounted
  /\ mounted' = FALSE
  /\ UNCHANGED <<stream, isRemote, isLoading, isSpeaking, localStream, error,
                 nextId, stopped, gumPending, localPlays, extPlays, listeners,
                 loops, unlockPlays>>

\* The component unmounts: React runs the cleanup of the [localStream] effect.
Dispose ==
  /\ mounted
  /\ mounted' = FALSE
  /\ stopped' = stopped \cup CleanupStops(stream, localStream)
  /\ UNCHANGED <<stream, isRemote, isLoading, isSpeaking, localStream, error,
                 nextId, gumPending, localPlays, extPlays, listeners, loops, unlockPlays>>

Next ==
  \/ \E s \in ExtStreams \cup {NoStream} : Attach(s)
  \/ SetRole
  \/ Retry
  \/ AcquireSucceed
  \/ AcquireFail
  \/ LocalPlaySettle
  \/ ExtPlaySettle
  \/ UserInteraction
  \/ UnlockPlaySettle
  \/ Tick
  \/ TimerFire
  \/ Advance
  \/ Dispose

Spec == Init /\ [][Next]_vars

\* ------------------------------------------------------------- claims
\* ms since the most recent loud detectVolume pass of any loop, capped at
\* SilenceMs: a loud pass sets its loop's timer to SilenceMs, and the timer
\* then holds what is left of it.
SinceLastLoud ==
  LET running == {t \in BagToSet(loops) : t > 0}
  IN IF running = {} THEN SilenceMs
     ELSE SilenceMs - (CHOOSE m \in running : \A t \in running : t <= m)

\* C1: at most one sampling loop (AnalysisSession) is active at any time.
C1_AtMostOneSession == BagCardinality(loops) <= 1

\* C2: speaking is never cleared before 800 ms have passed since the most
\* recent sampling tick above the threshold.
C2_SpeakingHeld ==
  [][(isSpeaking /\ ~isSpeaking') => SinceLastLoud >= SilenceMs]_vars

\* C3: once the controller is disposed and every acquisition in flight has
\* completed, no self-owned stream has live tracks.
C3_DisposedReleasesAll ==
  (~mounted /\ gumPending = 0 /\ localPlays = 0) => LiveSelfStreams = {}

\* C4: with a stream attached (supplied or self-acquired) and every playback
\* start and acquisition settled, the presentation state is Playing.
C4_AttachedSettlesPlaying ==
  (mounted /\ CurrentStream(stream, localStream) # NoStream /\ InFlight = 0)
    => PresentationState = "Playing"

\* C5: the Error state is shown only while the instance is responsible for
\* self-acquisition: local role and no externally supplied stream.
C5_ErrorOnlySelfAcquiring ==
  (mounted /\ PresentationState = "Error") => (~isRemote /\ stream = NoStream)

\* C6: whenever the externally supplied stream changes identity, the state
\* becomes Loading.
C6_AttachEntersLoading ==
  [][(mounted /\ stream' # stream) => PresentationState' = "Loading"]_vars

\* C7: at most one self-owned stream has live tracks at any time, and a
\* new capture request is issued only when no self-owned stream is live (the
\* old one is released first).
C7_OneLiveSelfStream ==
  /\ [](Cardinality(LiveSelfStreams) <= 1)
  /\ [][gumPending' > gumPending => LiveSelfStreams = {}]_vars

\* C8: at most one unlock-on-next-interaction binding is pending.
C8_AtMostOneBinding == listeners <= 1

\* C9: after disposal no sampling tick runs, no silence timer fires and
\* speaking is not updated: the loops and their timers stay as they are.
C9_QuietAfterDispose ==
  [][~mounted => (loops' = loops /\ isSpeaking' = isSpeaking)]_vars

\* C10: the tracks of an externally supplied stream are never stopped; only
\* streams obtained from the component's own capture request are.
C10_ExternalNeverStopped == \A s \in stopped : s.own = "self"

\* C10 witness: the component was unmounted while an external stream was
\* attached, and its cleanup stopped a captured stream.
C10_Witness == ~mounted /\ stream \in ExtStreams /\ stopped # {}

\* C11: no sampling loop is started while the role is remote.
C11_NoSessionWhileRemote ==
  [][(mounted /\ BagCardinality(loops') > BagCardinality(loops)) => ~isRemote']_vars

\* A step in which a pending getUserMedia rejected.
AcquisitionFailed == gumPending' = gumPending - 1 /\ nextId' = nextId

\* C12: an error message is set, and the Error state entered, only by a
\* failed capture request; a blocked playback start or an analysis that
\* cannot be set up never does either.
C12_OnlyAcquisitionFailureErrors ==
  [][((error' # error /\ error' # NoError)
      \/ (PresentationState' = "Error" /\ PresentationState # "Error"))
     => AcquisitionFailed]_vars

\* C12 witness: a playback start was blocked (an unlock listener is armed)
\* on a stream without audio track, and the component shows Playing.
C12_Witness ==
  /\ mounted /\ listeners > 0 /\ error = NoError
  /\ AudioTrackCount(stream) = 0 /\ PresentationState = "Playing"

\* A step of the Retry button: getLocalCamera is called from the error panel.
RetryStep ==
  /\ mounted /\ PresentationState = "Error"
  /\ gumPending' = gumPending + 1
  /\ stream' = stream /\ isRemote' = isRemote

\* C13: when a retry issues its capture request, every stream obtained by
\* an earlier attempt has been stopped.
C13_RetryReleasesFirst ==
  [][RetryStep => LiveSelfStreams = {}]_vars

\* A step in which a pending getUserMedia resolved with a new stream.
AcquisitionSucceeded == gumPending' = gumPending - 1 /\ nextId' = nextId + 1

\* C14: a failed capture puts the mounted component in Error with the
\* failure's message; a retry from Error enters Loading, clears the message
\* and issues a new request; a capture that succeeds does not leave the
\* component in Error.
C14_RetryCycle ==
  [][/\ (mounted /\ AcquisitionFailed)
          => (PresentationState' = "Error" /\ error' \in ErrorMessages)
     /\ RetryStep
          => (PresentationState' = "Loading" /\ error' = NoError)
     /\ (mounted /\ AcquisitionSucceeded)
          => PresentationState' # "Error"]_vars

C16_SilentStreamNeverSpeaks ==
  [][(/\ mounted /\ mounted'
      /\ stream \in ExtStreams /\ AudioTrackCount(stream) = 0
      /\ stream' = stream)
     => /\ BagCardinality(loops') <= BagCardinality(loops)
        /\ ~isSpeaking => ~isSpeaking']_vars

\* Readings whose mean magnitude is at or below the threshold.
QuietReadings == {d \in Readings : SumBins(d, NumBins) <= Threshold * NumBins}

\* What the test `average > 20` gives on the quiet readings, and on the others.
QuietOutcomes == {IsLoud(d) : d \in QuietReadings}
LoudReadingOutcomes == {IsLoud(d) : d \in Readings \ QuietReadings}

\* C17: a sampling tick whose mean magnitude is at or below 20 leaves
\* speaking and the silence timer as they are, and speaking turns from
\* false to true only in a tick whose mean magnitude is above 20.
C17_QuietTickChangesNothing ==
  [][/\ \A t \in BagToSet(loops), l \in QuietOutcomes :
          DetectVolume(t, l) => (isSpeaking' = isSpeaking /\ loops' = loops)
     /\ (~isSpeaking /\ isSpeaking')
          => \E t \in BagToSet(loops), l \in LoudReadingOutcomes :
               DetectVolume(t, l)]_vars

\* C17 witness: speaking is set, a silence timer has partly run down, and
\* the loop that armed it keeps sampling.
C17_Witness ==
  mounted /\ isSpeaking /\ \E t \in BagToSet(loops) : 0 < t /\ t < SilenceMs

PendingTimers(B) == CountOf(B, {t \in BagToSet(B) : t >= 0})

\* C19: while the component is mounted, speaking = true implies that a
\* silence timer is pending, and every silence timer that fires clears
\* speaking; so without further loud readings speaking is cleared as soon
\* as a pending timer fires, however many loops run.
C19_SpeakingHasTimer ==
  /\ []((mounted /\ isSpeaking) => PendingTimers(loops) > 0)
  /\ [][(mounted /\ PendingTimers(loops') < PendingTimers(loops))
          => ~isSpeaking']_vars

\* C19 witness: two loops run, speaking is set and one silence timer is
\* pending.
C19_Witness ==
  mounted /\ isSpeaking /\ BagCardinality(loops) > 1 /\ PendingTimers(loops) = 1

\* C20 as stated: a set error message is cleared only by a step that starts
\* an acquisition, and a step that supplies an external stream or changes
\* the role leaves the message as it is.
C20_ErrorFrame ==
  [][/\ (error # NoError /\ error' = NoError) => gumPending' = gumPending + 1
     /\ (mounted /\ (isRemote' # isRemote \/ (stream' # stream /\ stream' \in ExtStreams)))
          => error' = error]_vars

\* C20 amended: the error message changes only in a step that starts an
\* acquisition, which clears it, or in which an acquisition fails, which
\* sets it; a role change that makes the component acquire its own camera
\* is such a start, every other prop change, playback outcome or sampling
\* event leaves the message as it is.
C20_ErrorChangesOnlyByAcquisition ==
  [][error' # error
       => \/ (gumPending' = gumPending + 1 /\ error' = NoError)
          \/ (AcquisitionFailed /\ error' \in ErrorMessages)]_vars

\* C20 witness: an external stream was supplied after a failed acquisition
\* and the message is still set.
C20_Witness == mounted /\ error # NoError /\ stream \in ExtStreams

====
